---- MODULE Spec2Model ----
(***************************************************************************)
(* Verification model of the UFSAL/Game_Duration scripts.                  *)
(*                                                                         *)
(* The module holds six specifications over one set of variables:          *)
(*   SpecEv    - pbp_scripts/find_event_densities.py, the two gap / window *)
(*               detectors applied to a single-game table;                 *)
(*   SpecFetch - pbp_scripts/season_pbp.py, the retry loops of             *)
(*               fetch_game_pbp and fetch_team_game_ids;                   *)
(*   Spec      - pbp_scripts/season_pbp.py, the all-teams run with its     *)
(*               checkpoint files, state file, SIGINT handler and restart; *)
(*   SpecMet   - the wall-clock arithmetic of the two season_metrics.py    *)
(*               variants;                                                 *)
(*   SpecRo    - pbp_scripts/remove_outliers.py, the column check, the     *)
(*               per-game durations and the two output files;              *)
(*   SpecCall  - single calls of the helper functions of the two           *)
(*               season_metrics.py variants.                               *)
(* A specification leaves the variables of the others at their idle        *)
(* values.                                                                 *)
(***************************************************************************)
EXTENDS Integers, Sequences, FiniteSets, TLC

VARIABLES
    \* ---- find_event_densities.py ----
    ev_pc,          \* "input" | "long_done" | "many_done" | "idle"
    ev_df,          \* the single-game table: sequence of WCTIMESTRING records
    ev_threshold,   \* minutes_threshold
    ev_num_diff,    \* event_num_diff
    ev_result,      \* the list of rows the function returned
    ev_raised,      \* TRUE when the function left through its ValueError
    ev_diffs        \* every pair the function compared, with its min_diff in minutes

VARIABLES
    \* ---- season_pbp.py: fetch_game_pbp / fetch_team_game_ids ----
    f_pc,           \* "for" | "sleep" | "request" | "except" | "returned" | "idle"
    f_fn,           \* which of the two functions was called
    f_max_attempts, \* max_attempts
    f_attempt,      \* the loop variable attempt
    f_result,       \* the value returned: "data", "ids" or "None"
    f_log           \* the sleeps and API requests of the call, in order

VARIABLES
    \* ---- the two season_metrics.py variants ----
    m_script,       \* which script runs: "abhi" (AbhiPendyala) or "pbp" (pbp_scripts)
    m_game,         \* one game's rows, sorted by EVENTNUM: [wc, mark]
    m_ins,          \* position of the inserted unparsable row, 0 before it
    m_games_abhi,   \* AbhiPendyala main: the list `games` (game_duration_min)
    m_rows_pbp,     \* pbp_scripts main: the list `rows` (game_duration_min)
    m_wall_abhi,    \* AbhiPendyala: the _wall_sec column of the last game
    m_wc_pbp,       \* pbp_scripts: the parsed series wc of the last game
    m_mean_abhi,    \* AbhiPendyala: "Average Game Duration (min)" as <<sum, n>>
    m_mean_pbp      \* pbp_scripts: "Average Game Duration (min)" as <<sum, n>>

VARIABLES
    \* ---- season_pbp.py: the all-teams run ----
    pc,                          \* the statement the live process is at
    \* module globals (lines 30-34)
    CURRENT_PBP_DATA, CURRENT_SEASON, CURRENT_TEAM_NAME,
    CURRENT_FAILED_GAMES, CURRENT_EMPTY_GAMES,
    \* locals of get_all_teams_season_pbp
    teams_to_process, successful_processed_teams, failed_processed_teams,
    consecutive_failures, count, team_name, team_season_pbp,
    \* locals of collect_games_pbp_data
    c_game_ids, c_successful_games, c_failed_games, c_empty_games,
    c_all_play_by_play_data, c_count, c_game_id, c_play_by_play_data,
    \* files: checkpoints/<season>_<team>_pbp_checkpoint.pickle per team,
    \* pbp_data/<season>_<team>_pbp.csv per team, checkpoints/<season>_state.pickle
    ckpt_file, csv_file, state_file,
    \* history of the run
    interrupts,                  \* SIGINTs delivered so far
    h_sig_pc,                    \* where the last SIGINT hit the process
    h_prev_ckpt,                 \* the checkpoint files as they were before the handler ran
    h_loaded,                    \* the checkpoint the current collect call resumed from
    h_fetched,                   \* games the current collect call requested
    h_success,                   \* games the current collect call fetched rows for
    h_pending                    \* teams whose last get_team_season_pbp returned None

VARIABLES
    \* ---- remove_outliers.py ----
    ro_pc,          \* the statement main is at
    ro_columns,     \* the columns of the input table
    ro_df,          \* the input table: one sequence of WCTIMESTRING values per game
    ro_summaries,   \* duration_min of the per-game summaries
    ro_summary_out, \* the per-game summary file
    ro_cleaned_out  \* the cleaned play-by-play file: the games whose rows it holds

VARIABLES
    \* ---- a single call of one of the helper functions ----
    call_pc,        \* "args" before the call, "returned" after it
    call_fn,        \* the function called
    call_args,      \* its arguments
    call_result     \* the value it returned

evVars == <<ev_pc, ev_df, ev_threshold, ev_num_diff, ev_result, ev_raised, ev_diffs>>

fetchVars == <<f_pc, f_fn, f_max_attempts, f_attempt, f_result, f_log>>

metVars == <<m_script, m_game, m_ins, m_games_abhi, m_rows_pbp, m_wall_abhi, m_wc_pbp,
             m_mean_abhi, m_mean_pbp>>

pbpVars == <<pc, CURRENT_PBP_DATA, CURRENT_SEASON, CURRENT_TEAM_NAME,
             CURRENT_FAILED_GAMES, CURRENT_EMPTY_GAMES,
             teams_to_process, successful_processed_teams, failed_processed_teams,
             consecutive_failures, count, team_name, team_season_pbp,
             c_game_ids, c_successful_games, c_failed_games, c_empty_games,
             c_all_play_by_play_data, c_count, c_game_id, c_play_by_play_data,
             ckpt_file, csv_file, state_file,
             interrupts, h_sig_pc, h_prev_ckpt, h_loaded, h_fetched, h_success, h_pending>>

roVars == <<ro_pc, ro_columns, ro_df, ro_summaries, ro_summary_out, ro_cleaned_out>>

callVars == <<call_pc, call_fn, call_args, call_result>>

vars == <<evVars, fetchVars, metVars, pbpVars, roVars, callVars>>

-----------------------------------------------------------------------------
\* Bounds of the model

\* longest single-game table
MaxRows == 3
\* largest minutes_threshold tried
MaxThreshold == 3
\* largest event_num_diff tried
MaxNumDiff == 3
\* largest max_attempts a fetch is called with
MaxAttemptsTried == 3
\* most rows of a game before a row is inserted into it
MaxGameRows == 2
\* teams of the league
NumTeams == 2
\* games in a team's season
GamesPerTeam == 2
\* the period of the periodic checkpoint (count % 10 at line 386), scaled
\* down to the seasons the model runs
CheckpointEvery == 2
\* SIGINTs delivered during a run
MaxInterrupts == 1
\* most rows of a game of the outlier filter's input
MaxRoRows == 2
\* most games of the outlier filter's input
MaxRoGames == 2
\* longest series or game a helper function is called with
MaxCallRows == 3
\* most digits of a game id infer_season_from_game_id is called with
MaxIdDigits == 5

-----------------------------------------------------------------------------
\* 12-hour wall-clock strings

MinutesPerDay == 1440

Clock(h, m, ap) == [h |-> h, m |-> m, ap |-> ap]

\* "%I:%M %p" strings the tables are drawn from: around noon, around
\* midnight, and an evening pair more than twelve hours from the noon ones.
ClockSamples ==
    { Clock(11, 58, "PM"), Clock(11, 59, "PM"), Clock(12, 0, "AM"),
      Clock(12, 2, "AM"),  Clock(11, 59, "AM"), Clock(12, 0, "PM"),
      Clock(12, 3, "PM") }

\* pd.to_datetime(s, format='%I:%M %p'): a timestamp on 1900-01-01, here in
\* minutes since the start of that day.  %I maps 12 to hour 0, %p adds 12.
ToDatetime(s) == ((s.h % 12) + (IF s.ap = "PM" THEN 12 ELSE 0)) * 60 + s.m

\* the midnight-rollover step shared by both detectors: end_datetime is moved
\* one day forward when it is earlier than start_datetime.
RolloverNoShift(start_datetime, end_datetime) == end_datetime

Rollover(start_datetime, end_datetime) ==
    IF end_datetime < start_datetime
        THEN end_datetime + MinutesPerDay
        ELSE end_datetime

-----------------------------------------------------------------------------
\* find_long_events_12_hour_standard

\* the comparison of line 102
IsLongAtLeast(min_diff, minutes_threshold) == min_diff >= minutes_threshold

IsLong(min_diff, minutes_threshold) == min_diff > minutes_threshold

\* body of the loop for 1-based row i (python index i-1)
LongStep(df, minutes_threshold, event_num_diff, i) ==
    LET start_event == df[i]
        end_event == df[i + event_num_diff]
        start_datetime == ToDatetime(start_event)
        end_datetime == Rollover(start_datetime, ToDatetime(end_event))
        min_diff == end_datetime - start_datetime
    IN [ diff |-> [start |-> start_event, end |-> end_event, min_diff |-> min_diff],
         hit  |-> IsLong(min_diff, minutes_threshold),
         row  |-> [ EVENTNUM |-> i, START_TIME |-> start_event,
                    END_TIME |-> end_event, MIN_DIFF |-> min_diff ] ]

RECURSIVE LongLoop(_, _, _, _, _)
LongLoop(df, minutes_threshold, event_num_diff, i, acc) ==
    IF i > Len(df) - event_num_diff
        THEN acc
        ELSE LET s == LongStep(df, minutes_threshold, event_num_diff, i)
             IN LongLoop(df, minutes_threshold, event_num_diff, i + 1,
                         [ rows  |-> IF s.hit THEN Append(acc.rows, s.row) ELSE acc.rows,
                           diffs |-> acc.diffs \cup {s.diff},
                           raised |-> FALSE ])

find_long_events_12_hour_standard(df, minutes_threshold, event_num_diff) ==
    LongLoop(df, minutes_threshold, event_num_diff, 1,
             [rows |-> <<>>, diffs |-> {}, raised |-> FALSE])

-----------------------------------------------------------------------------
\* find_many_events_in_short_time_12_hour_standard

\* the comparison of line 53
IsShortStrict(min_diff, minutes_threshold) == min_diff < minutes_threshold

IsShort(min_diff, minutes_threshold) == min_diff <= minutes_threshold

ManyStep(df, minutes_threshold, event_num_diff, i) ==
    LET start_event == df[i]
        end_event == df[i + event_num_diff - 1]
        start_datetime == ToDatetime(start_event)
        end_datetime == Rollover(start_datetime, ToDatetime(end_event))
        min_diff == end_datetime - start_datetime
    IN [ diff |-> [start |-> start_event, end |-> end_event, min_diff |-> min_diff],
         neg  |-> min_diff < 0,
         hit  |-> IsShort(min_diff, minutes_threshold),
         row  |-> [ EVENTNUM_START |-> i, EVENTNUM_END |-> i + event_num_diff - 1,
                    EVENT_COUNT |-> event_num_diff,
                    START_TIME |-> start_event, END_TIME |-> end_event ] ]

RECURSIVE ManyLoop(_, _, _, _, _)
ManyLoop(df, minutes_threshold, event_num_diff, i, acc) ==
    IF i > Len(df) - event_num_diff + 1
        THEN acc
        ELSE LET s == ManyStep(df, minutes_threshold, event_num_diff, i)
             IN IF s.neg
                    THEN [ rows |-> <<>>, diffs |-> acc.diffs \cup {s.diff},
                           raised |-> TRUE ]
                    ELSE ManyLoop(df, minutes_threshold, event_num_diff, i + 1,
                                  [ rows  |-> IF s.hit THEN Append(acc.rows, s.row)
                                                       ELSE acc.rows,
                                    diffs |-> acc.diffs \cup {s.diff},
                                    raised |-> FALSE ])

find_many_events_in_short_time_12_hour_standard(df, minutes_threshold, event_num_diff) ==
    ManyLoop(df, minutes_threshold, event_num_diff, 1,
             [rows |-> <<>>, diffs |-> {}, raised |-> FALSE])

-----------------------------------------------------------------------------
\* SpecEv: a table, a threshold and a window are chosen, then one of the two
\* detectors is applied to them.

Tables == UNION { [1..n -> ClockSamples] : n \in 0..MaxRows }

EvIdle ==
    /\ ev_pc = "idle"
    /\ ev_df = <<>>
    /\ ev_threshold = 0
    /\ ev_num_diff = 1
    /\ ev_result = <<>>
    /\ ev_raised = FALSE
    /\ ev_diffs = {}

FetchIdle ==
    /\ f_pc = "idle"
    /\ f_fn = "none"
    /\ f_max_attempts = 0
    /\ f_attempt = 0
    /\ f_result = "None"
    /\ f_log = <<>>

PbpIdle ==
    /\ pc = "idle"
    /\ CURRENT_PBP_DATA = <<>>
    /\ CURRENT_SEASON = ""
    /\ CURRENT_TEAM_NAME = 0
    /\ CURRENT_FAILED_GAMES = <<>>
    /\ CURRENT_EMPTY_GAMES = <<>>
    /\ teams_to_process = <<>>
    /\ successful_processed_teams = <<>>
    /\ failed_processed_teams = <<>>
    /\ consecutive_failures = 0
    /\ count = 1
    /\ team_name = 0
    /\ team_season_pbp = "unset"
    /\ c_game_ids = {}
    /\ c_successful_games = {}
    /\ c_failed_games = <<>>
    /\ c_empty_games = <<>>
    /\ c_all_play_by_play_data = <<>>
    /\ c_count = 0
    /\ c_game_id = 0
    /\ c_play_by_play_data = "unset"
    /\ h_loaded = <<>>
    /\ h_fetched = {}
    /\ h_success = {}
    /\ ckpt_file = <<>>
    /\ csv_file = <<>>
    /\ state_file = <<>>
    /\ interrupts = 0
    /\ h_sig_pc = "none"
    /\ h_prev_ckpt = <<>>
    /\ h_pending = {}

RoIdle ==
    /\ ro_pc = "idle"
    /\ ro_columns = {}
    /\ ro_df = <<>>
    /\ ro_summaries = <<>>
    /\ ro_summary_out = "absent"
    /\ ro_cleaned_out = "absent"

CallIdle ==
    /\ call_pc = "idle"
    /\ call_fn = "none"
    /\ call_args = <<>>
    /\ call_result = "none"

MetIdle ==
    /\ m_script = "none"
    /\ m_game = <<>>
    /\ m_ins = 0
    /\ m_games_abhi = <<>>
    /\ m_rows_pbp = <<>>
    /\ m_wall_abhi = <<>>
    /\ m_wc_pbp = <<>>
    /\ m_mean_abhi = <<>>
    /\ m_mean_pbp = <<>>

EvInit ==
    /\ FetchIdle
    /\ MetIdle
    /\ PbpIdle
    /\ RoIdle
    /\ CallIdle
    /\ ev_pc = "input"
    /\ ev_df \in Tables
    /\ ev_threshold \in 0..MaxThreshold
    /\ ev_num_diff \in 1..MaxNumDiff
    /\ ev_result = <<>>
    /\ ev_raised = FALSE
    /\ ev_diffs = {}

RunFindLong ==
    /\ ev_pc = "input"
    /\ LET r == find_long_events_12_hour_standard(ev_df, ev_threshold, ev_num_diff)
       IN /\ ev_result' = r.rows
          /\ ev_raised' = r.raised
          /\ ev_diffs' = r.diffs
    /\ ev_pc' = "long_done"
    /\ UNCHANGED <<ev_df, ev_threshold, ev_num_diff>>
    /\ UNCHANGED <<fetchVars, metVars, pbpVars, roVars, callVars>>

RunFindMany ==
    /\ ev_pc = "input"
    /\ LET r == find_many_events_in_short_time_12_hour_standard(ev_df, ev_threshold, ev_num_diff)
       IN /\ ev_result' = r.rows
          /\ ev_raised' = r.raised
          /\ ev_diffs' = r.diffs
    /\ ev_pc' = "many_done"
    /\ UNCHANGED <<ev_df, ev_threshold, ev_num_diff>>
    /\ UNCHANGED <<fetchVars, metVars, pbpVars, roVars, callVars>>

EvNext == RunFindLong \/ RunFindMany

SpecEv == EvInit /\ [][EvNext]_vars

-----------------------------------------------------------------------------
\* season_pbp.py: the retry loops of fetch_game_pbp and fetch_team_game_ids.
\* One call is followed statement by statement; the API answers each request
\* with a response, a connection / timeout error, or some other exception.

MIN_DELAY == 2
MAX_DELAY == 6

\* random.uniform(min_delay, max_delay), in whole seconds
Delays == MIN_DELAY..MAX_DELAY

\* "ok": a response; "conn": ConnectionError, ReadTimeout or
\* requests.exceptions.ConnectionError; "other": any other exception
ApiOutcomes == {"ok", "conn", "other"}

SleepEntry(attempt, secs) == [kind |-> "sleep", attempt |-> attempt, secs |-> secs, outcome |-> "-"]
RequestEntry(attempt, outcome) == [kind |-> "request", attempt |-> attempt, secs |-> 0, outcome |-> outcome]

FetchInit ==
    /\ EvIdle
    /\ MetIdle
    /\ PbpIdle
    /\ RoIdle
    /\ CallIdle
    /\ f_pc = "for"
    /\ f_fn \in {"fetch_game_pbp", "fetch_team_game_ids"}
    /\ f_max_attempts \in 0..MaxAttemptsTried
    /\ f_attempt = 1
    /\ f_result = "None"
    /\ f_log = <<>>

\* ---- fetch_game_pbp ----

\* for attempt in range(1, max_attempts + 1): the function ends, returning
\* None, when the range is exhausted
fetch_game_pbp_For ==
    /\ f_fn = "fetch_game_pbp"
    /\ f_pc = "for"
    /\ IF f_attempt > f_max_attempts
          THEN f_pc' = "returned" /\ f_result' = "None"
          ELSE f_pc' = "sleep" /\ UNCHANGED f_result
    /\ UNCHANGED <<f_fn, f_max_attempts, f_attempt, f_log>>
    /\ UNCHANGED <<evVars, metVars, pbpVars, roVars, callVars>>

\* a retry that goes straight to the request
fetch_game_pbp_Sleep_FirstAttemptOnly(secs) ==
    /\ f_fn = "fetch_game_pbp"
    /\ f_pc = "sleep"
    /\ f_log' = IF f_attempt = 1 THEN Append(f_log, SleepEntry(f_attempt, secs)) ELSE f_log
    /\ f_pc' = "request"
    /\ UNCHANGED <<f_fn, f_max_attempts, f_attempt, f_result>>
    /\ UNCHANGED <<evVars, metVars, pbpVars, roVars, callVars>>

\* time.sleep(random.uniform(min_delay, max_delay))
fetch_game_pbp_Sleep(secs) ==
    /\ f_fn = "fetch_game_pbp"
    /\ f_pc = "sleep"
    /\ f_log' = Append(f_log, SleepEntry(f_attempt, secs))
    /\ f_pc' = "request"
    /\ UNCHANGED <<f_fn, f_max_attempts, f_attempt, f_result>>
    /\ UNCHANGED <<evVars, metVars, pbpVars, roVars, callVars>>

\* every exception is handled as a connection error
fetch_game_pbp_Request_RetryAnyError(outcome) ==
    /\ f_fn = "fetch_game_pbp"
    /\ f_pc = "request"
    /\ f_log' = Append(f_log, RequestEntry(f_attempt, outcome))
    /\ IF outcome = "ok"
          THEN f_pc' = "returned" /\ f_result' = "data"
          ELSE f_pc' = "except" /\ UNCHANGED f_result
    /\ UNCHANGED <<f_fn, f_max_attempts, f_attempt>>
    /\ UNCHANGED <<evVars, metVars, pbpVars, roVars, callVars>>

\* return PlayByPlayV2(...).get_data_frames()[0], or one of the two handlers
fetch_game_pbp_Request(outcome) ==
    /\ f_fn = "fetch_game_pbp"
    /\ f_pc = "request"
    /\ f_log' = Append(f_log, RequestEntry(f_attempt, outcome))
    /\ CASE outcome = "ok"    -> f_pc' = "returned" /\ f_result' = "data"
         [] outcome = "conn"  -> f_pc' = "except" /\ UNCHANGED f_result
         [] outcome = "other" -> f_pc' = "returned" /\ f_result' = "None"
    /\ UNCHANGED <<f_fn, f_max_attempts, f_attempt>>
    /\ UNCHANGED <<evVars, metVars, pbpVars, roVars, callVars>>

\* except (ConnectionError, ReadTimeout, ...): give up on the last attempt
fetch_game_pbp_ExceptConnection ==
    /\ f_fn = "fetch_game_pbp"
    /\ f_pc = "except"
    /\ IF f_attempt = f_max_attempts
          THEN f_pc' = "returned" /\ f_result' = "None" /\ UNCHANGED f_attempt
          ELSE f_pc' = "for" /\ f_attempt' = f_attempt + 1 /\ UNCHANGED f_result
    /\ UNCHANGED <<f_fn, f_max_attempts, f_log>>
    /\ UNCHANGED <<evVars, metVars, pbpVars, roVars, callVars>>

\* ---- fetch_team_game_ids ----

fetch_team_game_ids_For ==
    /\ f_fn = "fetch_team_game_ids"
    /\ f_pc = "for"
    /\ IF f_attempt > f_max_attempts
          THEN f_pc' = "returned" /\ f_result' = "None"
          ELSE f_pc' = "sleep" /\ UNCHANGED f_result
    /\ UNCHANGED <<f_fn, f_max_attempts, f_attempt, f_log>>
    /\ UNCHANGED <<evVars, metVars, pbpVars, roVars, callVars>>

fetch_team_game_ids_Sleep(secs) ==
    /\ f_fn = "fetch_team_game_ids"
    /\ f_pc = "sleep"
    /\ f_log' = Append(f_log, SleepEntry(f_attempt, secs))
    /\ f_pc' = "request"
    /\ UNCHANGED <<f_fn, f_max_attempts, f_attempt, f_result>>
    /\ UNCHANGED <<evVars, metVars, pbpVars, roVars, callVars>>

\* LeagueGameFinder(...) and return gamefinder.get_data_frames()[0].GAME_ID
fetch_team_game_ids_Request(outcome) ==
    /\ f_fn = "fetch_team_game_ids"
    /\ f_pc = "request"
    /\ f_log' = Append(f_log, RequestEntry(f_attempt, outcome))
    /\ CASE outcome = "ok"    -> f_pc' = "returned" /\ f_result' = "ids"
         [] outcome = "conn"  -> f_pc' = "except" /\ UNCHANGED f_result
         [] outcome = "other" -> f_pc' = "returned" /\ f_result' = "None"
    /\ UNCHANGED <<f_fn, f_max_attempts, f_attempt>>
    /\ UNCHANGED <<evVars, metVars, pbpVars, roVars, callVars>>

fetch_team_game_ids_ExceptConnection ==
    /\ f_fn = "fetch_team_game_ids"
    /\ f_pc = "except"
    /\ IF f_attempt = f_max_attempts
          THEN f_pc' = "returned" /\ f_result' = "None" /\ UNCHANGED f_attempt
          ELSE f_pc' = "for" /\ f_attempt' = f_attempt + 1 /\ UNCHANGED f_result
    /\ UNCHANGED <<f_fn, f_max_attempts, f_log>>
    /\ UNCHANGED <<evVars, metVars, pbpVars, roVars, callVars>>

FetchNext ==
    \/ fetch_game_pbp_For
    \/ \E secs \in Delays : fetch_game_pbp_Sleep(secs)
    \/ \E outcome \in ApiOutcomes : fetch_game_pbp_Request(outcome)
    \/ fetch_game_pbp_ExceptConnection
    \/ fetch_team_game_ids_For
    \/ \E secs \in Delays : fetch_team_game_ids_Sleep(secs)
    \/ \E outcome \in ApiOutcomes : fetch_team_game_ids_Request(outcome)
    \/ fetch_team_game_ids_ExceptConnection

SpecFetch == FetchInit /\ [][FetchNext]_vars

-----------------------------------------------------------------------------
\* season_metrics.py, both variants: wall-clock parsing and game duration.
\* A row carries its WCTIMESTRING and which boundary text its description
\* holds: "start" (Start of 1st Period), "end" (End of 4th Period) or "none".

\* np.nan / None / NaT: a missing value (every number of the model is >= 0)
Missing == -1

SecondsPerDay == 86400

\* whether strptime(s, "%I:%M %p") succeeds
Parsable(s) == s.ap \in {"AM", "PM"} /\ s.h \in 1..12 /\ s.m \in 0..59

\* strings that do not parse: an empty cell, a 24-hour time without AM/PM
UnparsableSamples == { Clock(0, 0, ""), Clock(20, 24, "") }

MetClockSamples ==
    { Clock(7, 0, "PM"), Clock(9, 0, "PM"), Clock(11, 30, "PM"), Clock(12, 30, "AM") }

Marks == {"none", "start", "end"}

Row(wc, mark) == [wc |-> wc, mark |-> mark]

\* hour and minute of day of a parsable string
HourOf(s) == (s.h % 12) + (IF s.ap = "PM" THEN 12 ELSE 0)

\* positions of a series (1-based) that satisfy a mask or hold a value
FirstIn(S) == CHOOSE i \in S : \A j \in S : i <= j
LastIn(S) == CHOOSE i \in S : \A j \in S : i >= j

\* ---- AbhiPendyala/season_metrics.py ----

\* dt.dt.hour.fillna(0) * 3600 + dt.dt.minute.fillna(0) * 60, dt being NaT
\* for a string that does not parse
AbhiSec(s) == IF Parsable(s) THEN HourOf(s) * 3600 + s.m * 60 ELSE 0

\* the loop of _to_seconds_from_wctime over sec[i..], with out, day_add, prev
RECURSIVE AbhiMonotone(_, _, _, _, _)
AbhiMonotone(sec, i, out, day_add, prev) ==
    IF i > Len(sec)
        THEN out
        ELSE LET v == sec[i]
             IN IF v = Missing
                    THEN AbhiMonotone(sec, i + 1, Append(out, prev), day_add, prev)
                    ELSE LET vv0 == v + day_add
                             crossed == prev # Missing /\ vv0 < prev
                             day_add1 == IF crossed THEN day_add + SecondsPerDay ELSE day_add
                             vv == v + day_add1
                         IN AbhiMonotone(sec, i + 1, Append(out, vv), day_add1, vv)

\* the column sec of _to_seconds_from_wctime (lines 60-62)
AbhiSecColumn(series) == [i \in 1..Len(series) |-> AbhiSec(series[i])]

_to_seconds_from_wctime(series) ==
    AbhiMonotone(AbhiSecColumn(series), 1, <<>>, 0, Missing)

WcColumn(g) == [i \in 1..Len(g) |-> g[i].wc]

\* _period_boundary(g, 1, "start") / _period_boundary(g, 4, "end"): the
\* _wall_sec of the first row whose text matches, None when there is none
AbhiPeriodBoundary(g, wall, mark) ==
    LET hits == { i \in 1..Len(g) : g[i].mark = mark }
    IN IF hits = {} THEN Missing ELSE wall[FirstIn(hits)]

NotNa(col) == { i \in 1..Len(col) : col[i] # Missing }

\* game_dur_min of per_game_metrics (lines 169-190)
AbhiGameDuration(g) ==
    LET wall == _to_seconds_from_wctime(WcColumn(g))
        start0 == AbhiPeriodBoundary(g, wall, "start")
        start == IF start0 # Missing THEN start0
                 ELSE IF NotNa(wall) # {} THEN wall[FirstIn(NotNa(wall))] ELSE Missing
        end0 == AbhiPeriodBoundary(g, wall, "end")
        end == IF end0 # Missing THEN end0
               ELSE IF NotNa(wall) # {} THEN wall[LastIn(NotNa(wall))] ELSE Missing
    IN IF start # Missing /\ end # Missing /\ end >= start
          THEN (end - start) \div 60
          ELSE Missing

\* ---- pbp_scripts/season_metrics.py ----

\* parse_wc_time: seconds into the anchor day 2000-01-01, None when the
\* string does not parse
parse_wc_time(s) == IF Parsable(s) THEN HourOf(s) * 3600 + s.m * 60 ELSE Missing

\* the difference t2 - t1 with no rollover branch
diff_seconds_NoRollover(t1, t2) ==
    IF t1 = Missing \/ t2 = Missing THEN Missing ELSE t2 - t1

\* diff_seconds (lines 38-47): None when an argument is None; a day is added
\* to t2 when it is more than twelve hours before t1
diff_seconds(t1, t2) ==
    IF t1 = Missing \/ t2 = Missing
        THEN Missing
        ELSE LET delta == t2 - t1
             IN IF delta < -12 * 3600 THEN delta + SecondsPerDay ELSE delta

PbpWc(g) == [i \in 1..Len(g) |-> parse_wc_time(g[i].wc)]

\* game_duration_min of per_game_metrics (lines 141-164); a negative
\* difference and a missing one both give None
PbpGameDuration(g) ==
    LET wc == PbpWc(g)
        start_mask == { i \in 1..Len(g) : g[i].mark = "start" }
        end_mask == { i \in 1..Len(g) : g[i].mark = "end" }
        t_start == IF start_mask # {} THEN wc[FirstIn(start_mask)]
                   ELSE IF NotNa(wc) # {} THEN wc[FirstIn(NotNa(wc))] ELSE Missing
        t_end == IF end_mask # {} THEN wc[LastIn(end_mask)]
                 ELSE IF NotNa(wc) # {} THEN wc[LastIn(NotNa(wc))] ELSE Missing
        ds == diff_seconds(t_start, t_end)
    IN IF t_start # Missing /\ t_end # Missing /\ ds >= 0
          THEN ds \div 60
          ELSE Missing

\* ---- season aggregation, both variants ----

RECURSIVE SumNotNa(_, _)
SumNotNa(col, i) ==
    IF i > Len(col) THEN 0
    ELSE (IF col[i] # Missing THEN col[i] ELSE 0) + SumNotNa(col, i + 1)

\* _safe_mean (AbhiPendyala) and safe_mean (pbp_scripts): the mean of the
\* non-missing values as <<sum, count>>, missing when there is none
SafeMean(col) ==
    IF NotNa(col) = {} THEN <<Missing, 0>>
    ELSE <<SumNotNa(col, 1), Cardinality(NotNa(col))>>

\* ---- SpecMet ----

Games == UNION { [1..n -> { Row(c, k) : c \in MetClockSamples, k \in Marks }] :
                 n \in 1..MaxGameRows }

MetInit ==
    /\ EvIdle
    /\ FetchIdle
    /\ PbpIdle
    /\ RoIdle
    /\ CallIdle
    /\ m_script \in {"abhi", "pbp"}
    /\ m_game \in Games
    /\ m_ins = 0
    /\ m_games_abhi = <<>>
    /\ m_rows_pbp = <<>>
    /\ m_wall_abhi = <<>>
    /\ m_wc_pbp = <<>>
    /\ m_mean_abhi = <<>>
    /\ m_mean_pbp = <<>>

\* how many games each main loop has been given so far
GamesGiven == IF m_ins = 0 THEN 1 ELSE 2

\* AbhiPendyala main: row = per_game_metrics(g); games.append(row)
Abhi_per_game_metrics ==
    /\ m_script = "abhi"
    /\ Len(m_games_abhi) < GamesGiven
    /\ m_games_abhi' = Append(m_games_abhi, AbhiGameDuration(m_game))
    /\ m_wall_abhi' = _to_seconds_from_wctime(WcColumn(m_game))
    /\ UNCHANGED <<m_script, m_game, m_ins, m_rows_pbp, m_wc_pbp, m_mean_abhi, m_mean_pbp>>
    /\ UNCHANGED <<evVars, fetchVars, pbpVars, roVars, callVars>>

\* pbp_scripts main: row = per_game_metrics(g); rows.append(row)
Pbp_per_game_metrics ==
    /\ m_script = "pbp"
    /\ Len(m_rows_pbp) < GamesGiven
    /\ m_rows_pbp' = Append(m_rows_pbp, PbpGameDuration(m_game))
    /\ m_wc_pbp' = PbpWc(m_game)
    /\ UNCHANGED <<m_script, m_game, m_ins, m_games_abhi, m_wall_abhi, m_mean_abhi, m_mean_pbp>>
    /\ UNCHANGED <<evVars, fetchVars, pbpVars, roVars, callVars>>

\* the input file gains a second game: the first one with one more row, at
\* position k, whose WCTIMESTRING does not parse
InsertUnparsableRow(k, bad, mark) ==
    /\ m_ins = 0
    /\ Len(IF m_script = "abhi" THEN m_games_abhi ELSE m_rows_pbp) = 1
    /\ k \in 1..(Len(m_game) + 1)
    /\ m_game' = SubSeq(m_game, 1, k - 1) \o <<Row(bad, mark)>> \o SubSeq(m_game, k, Len(m_game))
    /\ m_ins' = k
    /\ UNCHANGED <<m_script, m_games_abhi, m_rows_pbp, m_wall_abhi, m_wc_pbp, m_mean_abhi, m_mean_pbp>>
    /\ UNCHANGED <<evVars, fetchVars, pbpVars, roVars, callVars>>

\* AbhiPendyala main: groupby("season").agg(... _safe_mean)
Abhi_season_table ==
    /\ Len(m_games_abhi) = 2
    /\ m_mean_abhi = <<>>
    /\ m_mean_abhi' = SafeMean(m_games_abhi)
    /\ UNCHANGED <<m_script, m_game, m_ins, m_games_abhi, m_rows_pbp, m_wall_abhi, m_wc_pbp, m_mean_pbp>>
    /\ UNCHANGED <<evVars, fetchVars, pbpVars, roVars, callVars>>

\* pbp_scripts main: groupby("season").agg(... safe_mean)
Pbp_season_table ==
    /\ Len(m_rows_pbp) = 2
    /\ m_mean_pbp = <<>>
    /\ m_mean_pbp' = SafeMean(m_rows_pbp)
    /\ UNCHANGED <<m_script, m_game, m_ins, m_games_abhi, m_rows_pbp, m_wall_abhi, m_wc_pbp, m_mean_abhi>>
    /\ UNCHANGED <<evVars, fetchVars, pbpVars, roVars, callVars>>

MetNext ==
    \/ Abhi_per_game_metrics
    \/ Pbp_per_game_metrics
    \/ \E k \in 1..(MaxGameRows + 1), bad \in UnparsableSamples, mark \in Marks :
          InsertUnparsableRow(k, bad, mark)
    \/ Abhi_season_table
    \/ Pbp_season_table

SpecMet == MetInit /\ [][MetNext]_vars

-----------------------------------------------------------------------------
\* season_pbp.py: the all-teams run.  One process at a time executes
\* get_all_teams_season_pbp -> get_team_season_pbp -> collect_games_pbp_data;
\* the files under checkpoints/ and pbp_data/ outlive it.  SIGINT may arrive
\* between any two steps; restart_script and a user who runs the script again
\* start the next process.

\* max_consecutive_failures of get_all_teams_season_pbp
max_consecutive_failures == 1

Teams == 1..NumTeams

\* game ids of a team's season: LeagueGameFinder(team, season).GAME_ID
GameId(t, k) == t * 10 + k
Schedule(t) == { GameId(t, k) : k \in 1..GamesPerTeam }
AllGames == UNION { Schedule(t) : t \in Teams }

\* a play-by-play DataFrame: how many times the rows of each game occur in it
NoRows == [g \in AllGames |-> 0]
IsEmpty(df) == \A g \in AllGames : df[g] = 0
\* df['GAME_ID'].unique()
GamesIn(df) == { g \in AllGames : df[g] > 0 }
\* pd.concat([df, rows of game g])
Concat(df, g) == [df EXCEPT ![g] = @ + 1]

\* for x in list
SeqToSet(s) == { s[i] : i \in 1..Len(s) }

\* the shuffled team list: any order of the teams
Shuffles == { s \in [1..NumTeams -> Teams] : \A i, j \in 1..NumTeams : s[i] = s[j] => i = j }

NoCheckpoint == [exists |-> FALSE, play_by_play_data |-> NoRows, failed_games |-> <<>>, empty_games |-> <<>>]
NoCsv == [exists |-> FALSE, data |-> NoRows]
NoState == [exists |-> FALSE, teams_to_process |-> <<>>, successful |-> <<>>, failed |-> <<>>, count |-> 1]

\* a fresh interpreter: module globals (lines 30-34) and no frame yet
ProcessStarts ==
    /\ pc' = "start"
    /\ CURRENT_PBP_DATA' = NoRows
    /\ CURRENT_SEASON' = ""
    /\ CURRENT_TEAM_NAME' = 0
    /\ CURRENT_FAILED_GAMES' = <<>>
    /\ CURRENT_EMPTY_GAMES' = <<>>
    /\ teams_to_process' = <<>>
    /\ successful_processed_teams' = <<>>
    /\ failed_processed_teams' = <<>>
    /\ consecutive_failures' = 0
    /\ count' = 1
    /\ team_name' = 0
    /\ team_season_pbp' = "unset"

\* the frame of collect_games_pbp_data before its first statement
CollectFrameCleared ==
    /\ c_game_ids' = {}
    /\ c_successful_games' = {}
    /\ c_failed_games' = <<>>
    /\ c_empty_games' = <<>>
    /\ c_all_play_by_play_data' = NoRows
    /\ c_count' = 0
    /\ c_game_id' = 0
    /\ c_play_by_play_data' = "unset"
    /\ h_loaded' = NoRows
    /\ h_fetched' = {}
    /\ h_success' = {}

allTeamsLocals == <<teams_to_process, successful_processed_teams, failed_processed_teams,
                    consecutive_failures, count, team_name, team_season_pbp>>
collectLocals == <<c_game_ids, c_successful_games, c_failed_games, c_empty_games,
                   c_all_play_by_play_data, c_count, c_game_id, c_play_by_play_data,
                   h_loaded, h_fetched, h_success>>
globals == <<CURRENT_PBP_DATA, CURRENT_SEASON, CURRENT_TEAM_NAME, CURRENT_FAILED_GAMES,
             CURRENT_EMPTY_GAMES>>
disk == <<ckpt_file, csv_file, state_file>>
sigHistory == <<interrupts, h_sig_pc, h_prev_ckpt>>

\* python season_pbp.py --season S, first run: nothing on disk yet
PbpInit ==
    /\ EvIdle
    /\ FetchIdle
    /\ MetIdle
    /\ RoIdle
    /\ CallIdle
    /\ pc = "start"
    /\ CURRENT_PBP_DATA = NoRows
    /\ CURRENT_SEASON = ""
    /\ CURRENT_TEAM_NAME = 0
    /\ CURRENT_FAILED_GAMES = <<>>
    /\ CURRENT_EMPTY_GAMES = <<>>
    /\ teams_to_process = <<>>
    /\ successful_processed_teams = <<>>
    /\ failed_processed_teams = <<>>
    /\ consecutive_failures = 0
    /\ count = 1
    /\ team_name = 0
    /\ team_season_pbp = "unset"
    /\ c_game_ids = {}
    /\ c_successful_games = {}
    /\ c_failed_games = <<>>
    /\ c_empty_games = <<>>
    /\ c_all_play_by_play_data = NoRows
    /\ c_count = 0
    /\ c_game_id = 0
    /\ c_play_by_play_data = "unset"
    /\ h_loaded = NoRows
    /\ h_fetched = {}
    /\ h_success = {}
    /\ ckpt_file = [t \in Teams |-> NoCheckpoint]
    /\ csv_file = [t \in Teams |-> NoCsv]
    /\ state_file = NoState
    /\ interrupts = 0
    /\ h_sig_pc = "none"
    /\ h_prev_ckpt = [t \in Teams |-> NoCheckpoint]
    /\ h_pending = {}

OthersUnchanged == UNCHANGED <<evVars, fetchVars, metVars, roVars, callVars>>

\* save_checkpoint(data, season, team, failed_games, empty_games)
save_checkpoint(files, data, team, failed_games, empty_games) ==
    [files EXCEPT ![team] = [exists |-> TRUE, play_by_play_data |-> data,
                             failed_games |-> failed_games, empty_games |-> empty_games]]

\* load_checkpoint_data(season, team): the DataFrame of the file, an empty
\* one when there is no file
load_checkpoint_data(files, team) ==
    IF files[team].exists THEN files[team].play_by_play_data ELSE NoRows

\* ---- get_all_teams_season_pbp ----

\* lines 466-479: the shuffled queue and the empty result lists
AllTeamsStart ==
    /\ pc = "start"
    /\ teams_to_process' \in Shuffles
    /\ successful_processed_teams' = <<>>
    /\ failed_processed_teams' = <<>>
    /\ consecutive_failures' = 0
    /\ pc' = "load_state"
    /\ UNCHANGED <<count, team_name, team_season_pbp>>
    /\ UNCHANGED <<collectLocals, globals, disk, sigHistory, h_pending>>
    /\ OthersUnchanged

\* lines 481-507: a saved state replaces the queue and the lists, and its
\* file is removed; count restarts at 1 either way
AllTeamsLoadState ==
    /\ pc = "load_state"
    /\ IF state_file.exists
          THEN /\ teams_to_process' = state_file.teams_to_process
               /\ successful_processed_teams' = state_file.successful
               /\ failed_processed_teams' = state_file.failed
               /\ state_file' = NoState
          ELSE UNCHANGED <<teams_to_process, successful_processed_teams,
                           failed_processed_teams, state_file>>
    /\ consecutive_failures' = 0
    /\ count' = 1
    /\ pc' = "while"
    /\ UNCHANGED <<team_name, team_season_pbp, ckpt_file, csv_file>>
    /\ UNCHANGED <<collectLocals, globals, sigHistory, h_pending>>
    /\ OthersUnchanged

\* lines 508-510: while teams_to_process: team = teams_to_process.pop(0)
AllTeamsPop ==
    /\ pc = "while"
    /\ teams_to_process # <<>>
    /\ team_name' = Head(teams_to_process)
    /\ teams_to_process' = Tail(teams_to_process)
    /\ pc' = "check_failures"
    /\ UNCHANGED <<successful_processed_teams, failed_processed_teams,
                   consecutive_failures, count, team_season_pbp>>
    /\ UNCHANGED <<collectLocals, globals, disk, sigHistory, h_pending>>
    /\ OthersUnchanged

\* lines 571-577: the queue is empty, "Processing complete" is printed
AllTeamsComplete ==
    /\ pc = "while"
    /\ teams_to_process = <<>>
    /\ pc' = "complete"
    /\ UNCHANGED <<allTeamsLocals, collectLocals, globals, disk, sigHistory, h_pending>>
    /\ OthersUnchanged

\* lines 519-524: the queue as it is written to the state file, the popped
\* team no longer in it
StateToSave == teams_to_process

\* lines 513-524: after a failure the state is saved for the restart
AllTeamsCheckFailures ==
    /\ pc = "check_failures"
    /\ IF consecutive_failures >= max_consecutive_failures
          THEN /\ state_file' = [exists |-> TRUE,
                                 teams_to_process |-> StateToSave,
                                 successful |-> successful_processed_teams,
                                 failed |-> failed_processed_teams,
                                 count |-> count]
               /\ pc' = "cooldown"
               /\ UNCHANGED h_pending
          ELSE /\ pc' = "reset_globals"
               /\ h_pending' = h_pending \ {team_name}
               /\ UNCHANGED state_file
    /\ UNCHANGED <<ckpt_file, csv_file>>
    /\ UNCHANGED <<allTeamsLocals, collectLocals, globals, sigHistory>>
    /\ OthersUnchanged

\* lines 526-532 and restart_script: the cooldown, then a new process takes
\* over and this one exits
AllTeamsRestart ==
    /\ pc = "cooldown"
    /\ ProcessStarts
    /\ CollectFrameCleared
    /\ UNCHANGED <<disk, sigHistory, h_pending>>
    /\ OthersUnchanged

\* lines 534-545: the five assignments bind names local to
\* get_all_teams_season_pbp (it has no global statement), so the module
\* globals keep their values; a team with a completed CSV is skipped
AllTeamsSkipCheck ==
    /\ pc = "reset_globals"
    /\ IF csv_file[team_name].exists
          THEN /\ count' = count + 1
               /\ pc' = "while"
          ELSE /\ pc' = "fetch_ids"
               /\ UNCHANGED count
    /\ UNCHANGED <<teams_to_process, successful_processed_teams, failed_processed_teams,
                   consecutive_failures, team_name, team_season_pbp>>
    /\ UNCHANGED <<collectLocals, globals, disk, sigHistory, h_pending>>
    /\ OthersUnchanged

\* lines 548-550 and get_team_season_pbp lines 426-446: the game ids of the
\* team; None after failed attempts, an empty series for a team without games
TeamFetchGameIds(ids) ==
    /\ pc = "fetch_ids"
    /\ CASE ids = "None"  -> team_season_pbp' = "None" /\ pc' = "handle"
         [] ids = "empty" -> team_season_pbp' = "empty" /\ pc' = "handle"
         [] ids = "ids"   -> team_season_pbp' = "unset" /\ pc' = "collect_enter"
    /\ UNCHANGED <<teams_to_process, successful_processed_teams, failed_processed_teams,
                   consecutive_failures, count, team_name>>
    /\ UNCHANGED <<collectLocals, globals, disk, sigHistory, h_pending>>
    /\ OthersUnchanged

\* lines 552-569: requeue, record the success and drop the checkpoint, or
\* record that the team has no data
AllTeamsHandleResult ==
    /\ pc = "handle"
    /\ CASE team_season_pbp = "None" ->
              /\ teams_to_process' = Append(teams_to_process, team_name)
              /\ consecutive_failures' = consecutive_failures + 1
              /\ h_pending' = h_pending \cup {team_name}
              /\ UNCHANGED <<count, successful_processed_teams, failed_processed_teams,
                             ckpt_file>>
         [] team_season_pbp = "data" ->
              /\ count' = count + 1
              /\ consecutive_failures' = 0
              /\ successful_processed_teams' = Append(successful_processed_teams, team_name)
              /\ ckpt_file' = [ckpt_file EXCEPT ![team_name] = NoCheckpoint]
              /\ UNCHANGED <<teams_to_process, failed_processed_teams, h_pending>>
         [] team_season_pbp = "empty" ->
              /\ failed_processed_teams' = Append(failed_processed_teams, team_name)
              /\ UNCHANGED <<teams_to_process, successful_processed_teams,
                             consecutive_failures, count, ckpt_file, h_pending>>
    /\ pc' = "while"
    /\ UNCHANGED <<team_name, team_season_pbp, csv_file, state_file>>
    /\ UNCHANGED <<collectLocals, globals, sigHistory>>
    /\ OthersUnchanged

\* ---- collect_games_pbp_data ----

\* lines 331-333: the handler's season and team are set
CollectEnter ==
    /\ pc = "collect_enter"
    /\ CURRENT_SEASON' = "S"
    /\ CURRENT_TEAM_NAME' = team_name
    /\ pc' = "collect_load"
    /\ CollectFrameCleared
    /\ UNCHANGED <<CURRENT_PBP_DATA, CURRENT_FAILED_GAMES, CURRENT_EMPTY_GAMES>>
    /\ UNCHANGED <<allTeamsLocals, disk, sigHistory, h_pending>>
    /\ OthersUnchanged

\* the ids left to fetch when the checkpoint held rows but nothing is removed
RemainingGameIds_NoFilter(game_ids, successful_games, empty_games) == game_ids

\* line 352: game_ids[~game_ids.isin(successful_games + empty_games)]
RemainingGameIds(game_ids, successful_games, empty_games) ==
    game_ids \ (successful_games \cup SeqToSet(empty_games))

\* lines 335-358: the checkpoint is loaded; the failed and empty lists it
\* returns are overwritten with [] (340-341), and for a non-empty checkpoint
\* taken again from the DataFrame, which has no such columns (348-349)
CollectLoadCheckpoint ==
    /\ pc = "collect_load"
    /\ LET checkpoint_data == load_checkpoint_data(ckpt_file, team_name)
       IN /\ h_loaded' = checkpoint_data
          /\ IF ~IsEmpty(checkpoint_data)
                THEN /\ c_successful_games' = GamesIn(checkpoint_data)
                     /\ c_game_ids' = RemainingGameIds(Schedule(team_name),
                                                       GamesIn(checkpoint_data), <<>>)
                     /\ c_all_play_by_play_data' = checkpoint_data
                     /\ c_count' = Cardinality(GamesIn(checkpoint_data)) + 1
                ELSE /\ c_successful_games' = {}
                     /\ c_game_ids' = Schedule(team_name)
                     /\ c_all_play_by_play_data' = NoRows
                     /\ c_count' = 1
    /\ c_failed_games' = <<>>
    /\ c_empty_games' = <<>>
    /\ pc' = "collect_publish"
    /\ UNCHANGED <<c_game_id, c_play_by_play_data, h_fetched, h_success>>
    /\ UNCHANGED <<allTeamsLocals, globals, disk, sigHistory, h_pending>>
    /\ OthersUnchanged

\* lines 360-363: from here on CURRENT_FAILED_GAMES and CURRENT_EMPTY_GAMES
\* are the very lists failed_games and empty_games
CollectPublish ==
    /\ pc = "collect_publish"
    /\ CURRENT_PBP_DATA' = c_all_play_by_play_data
    /\ CURRENT_FAILED_GAMES' = c_failed_games
    /\ CURRENT_EMPTY_GAMES' = c_empty_games
    /\ pc' = "collect_for"
    /\ UNCHANGED <<CURRENT_SEASON, CURRENT_TEAM_NAME>>
    /\ UNCHANGED <<allTeamsLocals, collectLocals, disk, sigHistory, h_pending>>
    /\ OthersUnchanged

\* lines 366-368: the next id of the shuffled series and fetch_game_pbp for
\* it: None, an empty DataFrame or the game's rows
CollectFetch(game_id, result) ==
    /\ pc = "collect_for"
    /\ game_id \in c_game_ids
    /\ c_game_ids' = c_game_ids \ {game_id}
    /\ c_game_id' = game_id
    /\ c_play_by_play_data' = result
    /\ h_fetched' = h_fetched \cup {game_id}
    /\ pc' = "collect_branch"
    /\ UNCHANGED <<c_successful_games, c_failed_games, c_empty_games,
                   c_all_play_by_play_data, c_count, h_loaded, h_success>>
    /\ UNCHANGED <<allTeamsLocals, globals, disk, sigHistory, h_pending>>
    /\ OthersUnchanged

\* lines 370-372, 376-378, 380-383: the three branches on the fetched value
CollectBranch ==
    /\ pc = "collect_branch"
    /\ CASE c_play_by_play_data = "None" ->
              /\ c_failed_games' = Append(c_failed_games, c_game_id)
              /\ CURRENT_FAILED_GAMES' = Append(c_failed_games, c_game_id)
              /\ pc' = "collect_fail_save"
              /\ UNCHANGED <<c_empty_games, CURRENT_EMPTY_GAMES, c_all_play_by_play_data,
                             c_successful_games, h_success>>
         [] c_play_by_play_data = "empty" ->
              /\ c_empty_games' = Append(c_empty_games, c_game_id)
              /\ CURRENT_EMPTY_GAMES' = Append(c_empty_games, c_game_id)
              /\ pc' = "collect_periodic"
              /\ UNCHANGED <<c_failed_games, CURRENT_FAILED_GAMES, c_all_play_by_play_data,
                             c_successful_games, h_success>>
         [] c_play_by_play_data = "data" ->
              /\ c_all_play_by_play_data' = Concat(c_all_play_by_play_data, c_game_id)
              /\ c_successful_games' = c_successful_games \cup {c_game_id}
              /\ h_success' = h_success \cup {c_game_id}
              /\ pc' = "collect_periodic"
              /\ UNCHANGED <<c_failed_games, CURRENT_FAILED_GAMES, c_empty_games,
                             CURRENT_EMPTY_GAMES>>
    /\ UNCHANGED <<c_game_ids, c_count, c_game_id, c_play_by_play_data, h_loaded, h_fetched>>
    /\ UNCHANGED <<CURRENT_PBP_DATA, CURRENT_SEASON, CURRENT_TEAM_NAME>>
    /\ UNCHANGED <<allTeamsLocals, disk, sigHistory, h_pending>>
    /\ OthersUnchanged

\* the failure branch falling through to the CSV of get_team_season_pbp:
\* the checkpoint is saved, the rows collected so far are written as the
\* team's completed CSV and returned
CollectFailSave_WritesCsv ==
    /\ pc = "collect_fail_save"
    /\ ckpt_file' = save_checkpoint(ckpt_file, c_all_play_by_play_data, team_name,
                                    c_failed_games, <<>>)
    /\ csv_file' = [csv_file EXCEPT ![team_name] =
                       [exists |-> TRUE, data |-> c_all_play_by_play_data]]
    /\ team_season_pbp' = "data"
    /\ pc' = "handle"
    /\ UNCHANGED <<teams_to_process, successful_processed_teams, failed_processed_teams,
                   consecutive_failures, count, team_name>>
    /\ UNCHANGED state_file
    /\ UNCHANGED <<collectLocals, globals, sigHistory, h_pending>>
    /\ OthersUnchanged

\* lines 374-375 and get_team_season_pbp lines 450-452: the checkpoint is
\* saved without the empty list, collect returns None, and so does
\* get_team_season_pbp because CURRENT_FAILED_GAMES is not empty
CollectFailSave ==
    /\ pc = "collect_fail_save"
    /\ ckpt_file' = save_checkpoint(ckpt_file, c_all_play_by_play_data, team_name,
                                    c_failed_games, <<>>)
    /\ team_season_pbp' = "None"
    /\ pc' = "handle"
    /\ UNCHANGED <<teams_to_process, successful_processed_teams, failed_processed_teams,
                   consecutive_failures, count, team_name>>
    /\ UNCHANGED <<csv_file, state_file>>
    /\ UNCHANGED <<collectLocals, globals, sigHistory, h_pending>>
    /\ OthersUnchanged

\* lines 385-388: the periodic checkpoint
CollectPeriodicCheckpoint ==
    /\ pc = "collect_periodic"
    /\ ckpt_file' = IF c_count % CheckpointEvery = 0
                       THEN save_checkpoint(ckpt_file, c_all_play_by_play_data, team_name,
                                            c_failed_games, c_empty_games)
                       ELSE ckpt_file
    /\ pc' = "collect_update"
    /\ UNCHANGED <<csv_file, state_file>>
    /\ UNCHANGED <<allTeamsLocals, collectLocals, globals, sigHistory, h_pending>>
    /\ OthersUnchanged

\* line 390, and enumerate's next count
CollectUpdateCurrent ==
    /\ pc = "collect_update"
    /\ CURRENT_PBP_DATA' = c_all_play_by_play_data
    /\ c_count' = c_count + 1
    /\ pc' = "collect_for"
    /\ UNCHANGED <<c_game_ids, c_successful_games, c_failed_games, c_empty_games,
                   c_all_play_by_play_data, c_game_id, c_play_by_play_data,
                   h_loaded, h_fetched, h_success>>
    /\ UNCHANGED <<CURRENT_SEASON, CURRENT_TEAM_NAME, CURRENT_FAILED_GAMES,
                   CURRENT_EMPTY_GAMES>>
    /\ UNCHANGED <<allTeamsLocals, disk, sigHistory, h_pending>>
    /\ OthersUnchanged

\* lines 392-411: the series is exhausted, the final checkpoint is saved and
\* the collected data returned
CollectFinish ==
    /\ pc = "collect_for"
    /\ c_game_ids = {}
    /\ ckpt_file' = save_checkpoint(ckpt_file, c_all_play_by_play_data, team_name,
                                    c_failed_games, c_empty_games)
    /\ pc' = "team_save"
    /\ UNCHANGED <<csv_file, state_file>>
    /\ UNCHANGED <<allTeamsLocals, collectLocals, globals, sigHistory, h_pending>>
    /\ OthersUnchanged

\* ---- get_team_season_pbp, after collect_games_pbp_data returned data ----

\* lines 450-457: None when CURRENT_FAILED_GAMES is not empty; else the CSV
\* is written for non-empty data and the data returned
TeamSaveCsv ==
    /\ pc = "team_save"
    /\ IF CURRENT_FAILED_GAMES # <<>>
          THEN /\ team_season_pbp' = "None"
               /\ UNCHANGED csv_file
          ELSE IF ~IsEmpty(c_all_play_by_play_data)
                  THEN /\ csv_file' = [csv_file EXCEPT ![team_name] =
                                          [exists |-> TRUE, data |-> c_all_play_by_play_data]]
                       /\ team_season_pbp' = "data"
                  ELSE /\ team_season_pbp' = "empty"
                       /\ UNCHANGED csv_file
    /\ pc' = "handle"
    /\ UNCHANGED <<teams_to_process, successful_processed_teams, failed_processed_teams,
                   consecutive_failures, count, team_name>>
    /\ UNCHANGED <<ckpt_file, state_file>>
    /\ UNCHANGED <<collectLocals, globals, sigHistory, h_pending>>
    /\ OthersUnchanged

\* ---- SIGINT ----

\* signal_handler (lines 36-45): the checkpoint is written from the module
\* globals when CURRENT_PBP_DATA is not empty, then the process exits
signal_handler ==
    /\ pc \notin {"idle", "exited", "complete"}
    /\ interrupts < MaxInterrupts
    /\ ckpt_file' = IF ~IsEmpty(CURRENT_PBP_DATA) /\ CURRENT_SEASON # "" /\ CURRENT_TEAM_NAME # 0
                       THEN save_checkpoint(ckpt_file, CURRENT_PBP_DATA, CURRENT_TEAM_NAME,
                                            CURRENT_FAILED_GAMES, CURRENT_EMPTY_GAMES)
                       ELSE ckpt_file
    /\ interrupts' = interrupts + 1
    /\ h_sig_pc' = pc
    /\ h_prev_ckpt' = ckpt_file
    /\ pc' = "exited"
    /\ UNCHANGED <<teams_to_process, successful_processed_teams, failed_processed_teams,
                   consecutive_failures, count, team_name, team_season_pbp>>
    /\ UNCHANGED <<csv_file, state_file>>
    /\ UNCHANGED <<collectLocals, globals, h_pending>>
    /\ OthersUnchanged

\* the user runs the script again after the interrupt (lines 579-595)
RunAgain ==
    /\ pc = "exited"
    /\ ProcessStarts
    /\ CollectFrameCleared
    /\ h_sig_pc' = "none"
    /\ h_prev_ckpt' = [t \in Teams |-> NoCheckpoint]
    /\ UNCHANGED <<interrupts, disk, h_pending>>
    /\ OthersUnchanged

Next ==
    \/ AllTeamsStart
    \/ AllTeamsLoadState
    \/ AllTeamsPop
    \/ AllTeamsComplete
    \/ AllTeamsCheckFailures
    \/ AllTeamsRestart
    \/ AllTeamsSkipCheck
    \/ \E ids \in {"None", "empty", "ids"} : TeamFetchGameIds(ids)
    \/ AllTeamsHandleResult
    \/ CollectEnter
    \/ CollectLoadCheckpoint
    \/ CollectPublish
    \/ \E game_id \in AllGames, result \in {"None", "empty", "data"} :
          CollectFetch(game_id, result)
    \/ CollectBranch
    \/ CollectFailSave
    \/ CollectPeriodicCheckpoint
    \/ CollectUpdateCurrent
    \/ CollectFinish
    \/ TeamSaveCsv
    \/ signal_handler
    \/ RunAgain

Spec == PbpInit /\ [][Next]_vars

-----------------------------------------------------------------------------
\* Claims about find_event_densities.py (checked under SpecEv)

\* forward distance on the 24-hour dial from clock string a to clock string b
ForwardGap(a, b) == (ToDatetime(b) - ToDatetime(a)) % MinutesPerDay

LongWanted == { i \in 1..(Len(ev_df) - 1) : ForwardGap(ev_df[i], ev_df[i + 1]) > ev_threshold }

\* C1: with event_num_diff = 1, find_long_events_12_hour_standard returns
\* exactly one row for each index i whose forward gap to row i+1, modulo 24
\* hours, is strictly greater than minutes_threshold, in index order; the
\* result is empty exactly when no consecutive pair exceeds the threshold.
C1_LongEventsExact ==
    (ev_pc = "long_done" /\ ev_num_diff = 1) =>
        /\ Len(ev_result) = Cardinality(LongWanted)
        /\ \A i \in LongWanted :
              \E k \in 1..Len(ev_result) :
                  /\ ev_result[k].EVENTNUM = i
                  /\ ev_result[k].START_TIME = ev_df[i]
                  /\ ev_result[k].END_TIME = ev_df[i + 1]
        /\ \A k \in 1..Len(ev_result) : ev_result[k].EVENTNUM \in LongWanted
        /\ \A k \in 1..(Len(ev_result) - 1) :
              ev_result[k].EVENTNUM < ev_result[k + 1].EVENTNUM
        /\ (ev_result = <<>>) <=> (LongWanted = {})

\* C1 witness: a table that crosses midnight with one gap equal to the
\* threshold (not reported) and one gap above it (reported).
C1_Witness ==
    /\ ev_pc = "long_done"
    /\ ev_num_diff = 1
    /\ Len(ev_df) = 3
    /\ ToDatetime(ev_df[2]) < ToDatetime(ev_df[1])
    /\ ForwardGap(ev_df[1], ev_df[2]) = ev_threshold
    /\ ForwardGap(ev_df[2], ev_df[3]) > ev_threshold
    /\ Len(ev_result) = 1
    /\ ev_result[1].EVENTNUM = 2

ManyWanted ==
    { i \in 1..(Len(ev_df) - ev_num_diff + 1) :
        ForwardGap(ev_df[i], ev_df[i + ev_num_diff - 1]) <= ev_threshold }

\* C2: find_many_events_in_short_time_12_hour_standard returns exactly one
\* row for each window of event_num_diff consecutive rows whose forward span
\* from first to last row, modulo 24 hours, is at most minutes_threshold; the
\* result is empty exactly when there is no such window, and always when the
\* table has fewer than event_num_diff rows.
C2_ManyEventsExact ==
    ev_pc = "many_done" =>
        /\ Len(ev_result) = Cardinality(ManyWanted)
        /\ \A i \in ManyWanted :
              \E k \in 1..Len(ev_result) :
                  /\ ev_result[k].EVENTNUM_START = i
                  /\ ev_result[k].EVENTNUM_END = i + ev_num_diff - 1
                  /\ ev_result[k].EVENT_COUNT = ev_num_diff
        /\ \A k \in 1..Len(ev_result) : ev_result[k].EVENTNUM_START \in ManyWanted
        /\ (ev_result = <<>>) <=> (ManyWanted = {})
        /\ Len(ev_df) < ev_num_diff => ev_result = <<>>

\* C2 witness: three rows, windows of two, the first window spans midnight
\* with a span equal to the threshold (reported), the second is too long.
C2_Witness ==
    /\ ev_pc = "many_done"
    /\ ev_num_diff = 2
    /\ Len(ev_df) = 3
    /\ ToDatetime(ev_df[2]) < ToDatetime(ev_df[1])
    /\ ForwardGap(ev_df[1], ev_df[2]) = ev_threshold
    /\ ev_threshold > 0
    /\ ForwardGap(ev_df[2], ev_df[3]) > ev_threshold
    /\ Len(ev_result) = 1
    /\ ev_result[1].EVENTNUM_START = 1

\* C3: in both detectors every compared pair measures at least 0 and less
\* than 24 hours, a later row with an earlier clock time being taken on the
\* next day (11:59 PM -> 12:00 AM measures 1 minute), and the "time
\* difference cannot be negative" ValueError is never raised.
C3_RolloverRange ==
    ev_pc \in {"long_done", "many_done"} =>
        /\ ~ev_raised
        /\ \A p \in ev_diffs :
              /\ 0 <= p.min_diff
              /\ p.min_diff < MinutesPerDay
              /\ ToDatetime(p.end) < ToDatetime(p.start) =>
                     p.min_diff = ToDatetime(p.end) + MinutesPerDay - ToDatetime(p.start)
              /\ (p.start = Clock(11, 59, "PM") /\ p.end = Clock(12, 0, "AM")) =>
                     p.min_diff = 1

\* C3 witness: the window detector compared 11:59 PM with 12:00 AM.
C3_Witness ==
    /\ ev_pc = "many_done"
    /\ ~ev_raised
    /\ \E p \in ev_diffs :
          /\ p.start = Clock(11, 59, "PM")
          /\ p.end = Clock(12, 0, "AM")
          /\ p.min_diff = 1

-----------------------------------------------------------------------------
\* Claims about the retry loops of season_pbp.py (checked under SpecFetch)

IsRequest(e) == e.kind = "request"
IsSleep(e) == e.kind = "sleep"
Requests == SelectSeq(f_log, IsRequest)
Sleeps == SelectSeq(f_log, IsSleep)

AllConnBefore(k) == \A i \in 1..(k - 1) : Requests[i].outcome = "conn"

\* C5: a call with max_attempts = n issues at most n API requests; it returns
\* the first successful response; it returns None after exactly n attempts
\* when every attempt raised a connection / timeout error; and it returns None
\* straight after the first attempt that raised any other exception.  Both
\* fetch_game_pbp and fetch_team_game_ids.
C5_BoundedAttempts ==
    /\ Len(Requests) <= f_max_attempts
    /\ AllConnBefore(Len(Requests))
    /\ f_pc = "returned" =>
          LET n == Len(Requests)
          IN \/ /\ n >= 1
                /\ Requests[n].outcome = "ok"
                /\ f_result \in {"data", "ids"}
             \/ /\ n = f_max_attempts
                /\ \A i \in 1..n : Requests[i].outcome = "conn"
                /\ f_result = "None"
             \/ /\ n >= 1
                /\ Requests[n].outcome = "other"
                /\ f_result = "None"
    /\ (Requests # <<>> /\ Requests[Len(Requests)].outcome \in {"ok", "other"}) =>
          f_pc = "returned"

\* C5 witness: fetch_game_pbp gave up after max_attempts >= 2 connection errors.
C5_Witness ==
    /\ f_fn = "fetch_game_pbp"
    /\ f_pc = "returned"
    /\ f_max_attempts >= 2
    /\ Len(Requests) = f_max_attempts
    /\ \A i \in 1..Len(Requests) : Requests[i].outcome = "conn"
    /\ f_result = "None"

\* C8: every API request, retries included, is preceded by a blocking sleep
\* within the same attempt, so no two requests occur without a sleep between
\* them.
C8_SleepBeforeRequest ==
    \A i \in 1..Len(f_log) :
        IsRequest(f_log[i]) =>
            /\ i > 1
            /\ IsSleep(f_log[i - 1])
            /\ f_log[i - 1].attempt = f_log[i].attempt
            /\ f_log[i - 1].secs >= MIN_DELAY
            /\ f_log[i - 1].secs > 0

\* C8 witness: a retried request, each of the two requests after its own sleep.
C8_Witness ==
    /\ f_fn = "fetch_game_pbp"
    /\ Len(Requests) = 2
    /\ Len(f_log) = 4
    /\ IsSleep(f_log[3])
    /\ IsRequest(f_log[4])
    /\ f_log[4].attempt = 2

\* C9: retries back off: within one call the wait before attempt k+1 is
\* longer than the wait before attempt k.
C9_BackoffGrows ==
    \A k \in 1..(Len(Sleeps) - 1) : Sleeps[k + 1].secs > Sleeps[k].secs

-----------------------------------------------------------------------------
\* Claims about the season_metrics.py variants (checked under SpecMet)

\* C10: in both variants a row whose WCTIMESTRING does not parse yields a
\* missing wall-clock value, so inserting such a row into a game leaves the
\* game's duration unchanged or makes it missing, never a different number;
\* and the season mean is taken over the non-missing durations only.
C10_UnparsableIsMissing ==
    /\ (m_ins # 0 /\ Len(m_games_abhi) = 2) =>
          /\ m_wall_abhi[m_ins] = Missing
          /\ m_games_abhi[2] \in {m_games_abhi[1], Missing}
    /\ (m_ins # 0 /\ Len(m_rows_pbp) = 2) =>
          /\ m_wc_pbp[m_ins] = Missing
          /\ m_rows_pbp[2] \in {m_rows_pbp[1], Missing}
    /\ m_mean_abhi # <<>> =>
          m_mean_abhi[2] = Cardinality({ i \in 1..2 : m_games_abhi[i] # Missing })
    /\ m_mean_pbp # <<>> =>
          m_mean_pbp[2] = Cardinality({ i \in 1..2 : m_rows_pbp[i] # Missing })

-----------------------------------------------------------------------------
\* Claims about season_pbp.py's all-teams run (checked under Spec)

\* the statements of collect_games_pbp_data after the checkpoint was loaded,
\* up to the return of the collected data
AfterLoad == {"collect_publish", "collect_for", "collect_branch", "collect_fail_save",
              "collect_periodic", "collect_update", "team_save"}

\* C4: when collect_games_pbp_data resumed from a non-empty checkpoint, no
\* game with rows in the checkpoint is requested again, and the data holds
\* the rows of every checkpointed game and of every newly fetched game
\* exactly once, throughout the loop and when the data is returned.
C4_ResumeFetchesOnlyMissing ==
    (pc \in AfterLoad /\ ~IsEmpty(h_loaded)) =>
        /\ h_fetched \cap GamesIn(h_loaded) = {}
        /\ \A g \in AllGames :
              /\ c_all_play_by_play_data[g] =
                    h_loaded[g] + (IF g \in h_success THEN 1 ELSE 0)
              /\ c_all_play_by_play_data[g] <= 1
        /\ GamesIn(c_all_play_by_play_data) = GamesIn(h_loaded) \cup h_success

\* a resumed call that fetched a further game returns its data
C4_Witness ==
    /\ pc = "team_save"
    /\ ~IsEmpty(h_loaded)
    /\ h_success # {}
    /\ GamesIn(c_all_play_by_play_data) = Schedule(team_name)

\* C6: a team whose get_team_season_pbp returned None has been processed
\* again by the time the run reports "Processing complete".
C6_FailedTeamReprocessed ==
    pc = "complete" => h_pending = {}

\* the statements of collect_games_pbp_data
InCollect == {"collect_load", "collect_publish", "collect_for", "collect_branch",
              "collect_fail_save", "collect_periodic", "collect_update"}

\* C7: after signal_handler ran for a SIGINT that arrived inside
\* collect_games_pbp_data, the current team's checkpoint on disk holds the
\* rows of every game in the in-memory result, and of every game the
\* checkpoint held before the handler ran.
C7_InterruptKeepsCollected ==
    (pc = "exited" /\ h_sig_pc \in InCollect) =>
        \A g \in AllGames :
            /\ ckpt_file[team_name].play_by_play_data[g] >= c_all_play_by_play_data[g]
            /\ ckpt_file[team_name].play_by_play_data[g] >=
                  h_prev_ckpt[team_name].play_by_play_data[g]

-----------------------------------------------------------------------------
\* Further claims about find_event_densities.py (checked under SpecEv)

\* C12: for every event_num_diff >= 1, each row find_long_events_12_hour_standard
\* reports is an event whose forward gap to the immediately following event
\* exceeds minutes_threshold.
C12_LongToNextEvent ==
    ev_pc = "long_done" =>
        \A k \in 1..Len(ev_result) : ev_result[k].EVENTNUM \in LongWanted

-----------------------------------------------------------------------------
\* remove_outliers.py
\*
\* SpecRo: main reads a table of games, checks its columns, builds the
\* per-game summaries, flags the outliers and writes the two output files.

LOWER_BOUND == 90
UPPER_BOUND == 180

\* TIME_REGEX (line 13): one or two digits, a colon, two digits, AM or PM
TimeRegexMatches(s) == s.ap \in {"AM", "PM"} /\ s.h \in 0..99 /\ s.m \in 0..99

\* parse_clock_to_minutes (lines 16-32): minutes since midnight, None
\* (Missing) for a string the regex does not match
parse_clock_to_minutes(s) ==
    IF ~TimeRegexMatches(s)
        THEN Missing
        ELSE ((s.h % 12) + (IF s.ap = "PM" THEN 12 ELSE 0)) * 60 + s.m

\* first_last_valid_times (lines 35-57): the duration between the first and
\* the last parsable WCTIMESTRING of a game, None when none parses
first_last_valid_times(g) ==
    LET parsed == { i \in 1..Len(g) : parse_clock_to_minutes(g[i]) # Missing }
    IN IF parsed = {}
          THEN Missing
          ELSE LET start_min == parse_clock_to_minutes(g[FirstIn(parsed)])
                   end_min == parse_clock_to_minutes(g[LastIn(parsed)])
                   duration == end_min - start_min
               IN IF duration < 0 THEN duration + 24 * 60 ELSE duration

\* lines 120-124: isna, below LOWER_BOUND or above UPPER_BOUND
outlier_mask(duration_min) ==
    \/ duration_min = Missing
    \/ duration_min < LOWER_BOUND
    \/ duration_min > UPPER_BOUND

\* line 112 with `and` in place of `or`: one of the two columns is enough
HasRequiredColumns_Either(columns) ==
    "GAME_ID" \in columns \/ "WCTIMESTRING" \in columns

\* line 112: both columns are there
HasRequiredColumns(columns) ==
    "GAME_ID" \in columns /\ "WCTIMESTRING" \in columns

\* WCTIMESTRING values of the tables: a 7:00 PM tip-off, ends 89, 90, 100,
\* 120, 180 and 181 minutes later, an end after midnight, and a cell that
\* does not parse
RoClockSamples ==
    { Clock(7, 0, "PM"), Clock(8, 29, "PM"), Clock(8, 30, "PM"), Clock(8, 40, "PM"),
      Clock(9, 0, "PM"), Clock(10, 0, "PM"), Clock(10, 1, "PM"), Clock(1, 0, "AM"),
      Clock(20, 24, "") }

RoGames == UNION { [1..n -> RoClockSamples] : n \in 1..MaxRoRows }

RoTables == UNION { [1..n -> RoGames] : n \in 1..MaxRoGames }

\* lines 108-109: the table has been read from --input; no output file yet
RoInit ==
    /\ EvIdle
    /\ FetchIdle
    /\ MetIdle
    /\ PbpIdle
    /\ CallIdle
    /\ ro_pc = "read"
    /\ ro_columns \in SUBSET {"GAME_ID", "WCTIMESTRING"}
    /\ ro_df \in RoTables
    /\ ro_summaries = <<>>
    /\ ro_summary_out = "absent"
    /\ ro_cleaned_out = "absent"

RoOthersUnchanged == UNCHANGED <<evVars, fetchVars, metVars, pbpVars, callVars>>

\* lines 111-113: the sanity check raises ValueError
RoCheckColumns ==
    /\ ro_pc = "read"
    /\ ro_pc' = IF HasRequiredColumns(ro_columns) THEN "checked" ELSE "raised"
    /\ UNCHANGED <<ro_columns, ro_df, ro_summaries, ro_summary_out, ro_cleaned_out>>
    /\ RoOthersUnchanged

\* lines 115-117: groupby("GAME_ID", sort=False).apply(derive_game_summary)
RoBuildSummaries ==
    /\ ro_pc = "checked"
    /\ ro_summaries' = [i \in 1..Len(ro_df) |-> first_last_valid_times(ro_df[i])]
    /\ ro_pc' = "summarised"
    /\ UNCHANGED <<ro_columns, ro_df, ro_summary_out, ro_cleaned_out>>
    /\ RoOthersUnchanged

\* lines 119-141: the outliers are flagged and printed, the summary of every
\* game is written to --summary-out
RoWriteSummary ==
    /\ ro_pc = "summarised"
    /\ ro_summary_out' = ro_summaries
    /\ ro_pc' = "summary_written"
    /\ UNCHANGED <<ro_columns, ro_df, ro_summaries, ro_cleaned_out>>
    /\ RoOthersUnchanged

\* lines 143-147: the rows of the games that are not outliers are written to
\* --cleaned-out
RoWriteCleaned ==
    /\ ro_pc = "summary_written"
    /\ LET bad_ids == { i \in 1..Len(ro_df) : outlier_mask(ro_summaries[i]) }
       IN ro_cleaned_out' = (1..Len(ro_df)) \ bad_ids
    /\ ro_pc' = "done"
    /\ UNCHANGED <<ro_columns, ro_df, ro_summaries, ro_summary_out>>
    /\ RoOthersUnchanged

RoNext ==
    \/ RoCheckColumns
    \/ RoBuildSummaries
    \/ RoWriteSummary
    \/ RoWriteCleaned

SpecRo == RoInit /\ [][RoNext]_vars

-----------------------------------------------------------------------------
\* Claims about remove_outliers.py (checked under SpecRo)

\* C11: when the input table lacks GAME_ID or WCTIMESTRING, main raises at
\* its sanity check and neither output file is ever written.
C11_MissingColumnNoOutput ==
    ("GAME_ID" \notin ro_columns \/ "WCTIMESTRING" \notin ro_columns) =>
        /\ ro_pc \in {"read", "raised"}
        /\ ro_summary_out = "absent"
        /\ ro_cleaned_out = "absent"

\* C11 witness: the run stopped at the sanity check on a table without GAME_ID
C11_Witness ==
    /\ ro_pc = "raised"
    /\ ro_columns = {"WCTIMESTRING"}
    /\ ro_summary_out = "absent"
    /\ ro_cleaned_out = "absent"

\* C13: a game is in the cleaned output exactly when its duration lies
\* within 107..177 minutes.
C13_KeptWithin107To177 ==
    ro_pc = "done" =>
        \A i \in 1..Len(ro_df) :
            (i \in ro_cleaned_out) <=>
                (ro_summaries[i] # Missing /\ ro_summaries[i] >= 107 /\ ro_summaries[i] <= 177)

-----------------------------------------------------------------------------
\* Further claims about season_pbp.py's all-teams run (checked under Spec)

\* the teams a snapshot of the run accounts for: those in its queue, in its
\* successful list, in its failed (no data) list, or with a completed CSV
Accounted(queue, successful, failed) ==
    SeqToSet(queue) \cup SeqToSet(successful) \cup SeqToSet(failed)
        \cup { t \in Teams : csv_file[t].exists }

\* C14: every snapshot in the season state file, and the lists at the moment
\* "Processing complete" is reported, account for every team of the league.
C14_NoTeamLost ==
    /\ state_file.exists =>
          Teams \subseteq Accounted(state_file.teams_to_process, state_file.successful,
                                    state_file.failed)
    /\ pc = "complete" =>
          Teams \subseteq Accounted(teams_to_process, successful_processed_teams,
                                    failed_processed_teams)

\* C15: every checkpoint file holds rows of its own team's games only.
C15_CheckpointOwnTeamOnly ==
    \A t \in Teams : GamesIn(ckpt_file[t].play_by_play_data) \subseteq Schedule(t)

\* C16: after collect_games_pbp_data loaded the team's checkpoint, no game
\* the checkpoint records as empty is among the games still to be fetched.
C16_EmptyGamesNotRefetched ==
    (pc = "collect_publish" /\ ckpt_file[team_name].exists) =>
        c_game_ids \cap SeqToSet(ckpt_file[team_name].empty_games) = {}

\* C17: the completed CSV of a team does not exist while its games are being
\* collected nor after get_team_season_pbp returned None; when the function
\* returned data, no fetch of the call failed and every game of the team's
\* schedule has rows in the CSV or was found empty.
C17_CsvOnlyForCompleteSeason ==
    /\ pc \in (InCollect \cup {"team_save"}) => ~csv_file[team_name].exists
    /\ (pc = "handle" /\ team_season_pbp = "None") => ~csv_file[team_name].exists
    /\ (pc = "handle" /\ team_season_pbp = "data") =>
          /\ csv_file[team_name].exists
          /\ c_failed_games = <<>>
          /\ CURRENT_FAILED_GAMES = <<>>
          /\ Schedule(team_name) \subseteq
                GamesIn(csv_file[team_name].data) \cup SeqToSet(c_empty_games)

\* C17 witness: a call resumed from a checkpoint found the remaining game
\* empty and wrote the CSV
C17_Witness ==
    /\ pc = "handle"
    /\ team_season_pbp = "data"
    /\ csv_file[team_name].exists
    /\ ~IsEmpty(h_loaded)
    /\ c_empty_games # <<>>

-----------------------------------------------------------------------------
\* Helper functions of the two season_metrics.py variants, called on their own
\*
\* SpecCall: the arguments of one call are chosen, then the function named
\* by call_fn is applied to them.

\* _segments_total_length (AbhiPendyala, lines 121-146) over rows i..n of a
\* game whose rows are [wall |-> _wall_sec, start |-> start_mask, ex |-> exclude_mask]

\* the while loop of lines 139-141: the first row from j on that matches
\* neither mask, Len(g) + 1 when there is none
RECURSIVE SegmentEnd(_, _)
SegmentEnd(g, j) ==
    IF j <= Len(g) /\ (g[j].start \/ g[j].ex)
        THEN SegmentEnd(g, j + 1)
        ELSE j

RECURSIVE SegmentsLoop(_, _, _)
SegmentsLoop(g, i, total) ==
    IF i > Len(g)
        THEN total
        ELSE IF ~g[i].start
                THEN SegmentsLoop(g, i + 1, total)
                ELSE LET j == SegmentEnd(g, i + 1)
                         delta == IF j <= Len(g) THEN g[j].wall - g[i].wall ELSE 0
                     IN SegmentsLoop(g, i + 1, IF delta > 0 THEN total + delta ELSE total)

_segments_total_length(g) == SegmentsLoop(g, 1, 0)

\* per_game_metrics lines 204-210: ttl_rep, start_mask and exclude_mask both
\* being replay_mask
ReplayTotal(wall, replay_mask) ==
    _segments_total_length([i \in 1..Len(wall) |->
        [wall |-> wall[i], start |-> replay_mask[i], ex |-> replay_mask[i]]])

\* _wall_sec values of the games the replay total is taken of
WallSamples == {0, 60, 120, 180}

\* games: a non-decreasing _wall_sec column and a replay mask
ReplayGames ==
    UNION { { [wall |-> w, replay_mask |-> r] :
                w \in { x \in [1..n -> WallSamples] :
                           \A i \in 1..(n - 1) : x[i] <= x[i + 1] },
                r \in [1..n -> BOOLEAN] } : n \in 0..MaxCallRows }

\* WCTIMESTRING values the time functions are called with: morning,
\* afternoon, evening, either side of midnight, and a cell that does not parse
CallClockSamples ==
    { Clock(8, 59, "AM"), Clock(9, 0, "AM"), Clock(1, 0, "PM"), Clock(9, 0, "PM"),
      Clock(11, 58, "PM"), Clock(12, 2, "AM"), Clock(0, 0, "") }

CallSeries == UNION { [1..n -> CallClockSamples] : n \in 0..MaxCallRows }

\* ---- the four duration computations on one start/end pair ----

\* compute_game_durations_all_years.py parse_time (lines 11-15): minutes
\* into 1900-01-01, None when strptime fails
parse_time(t) == IF Parsable(t) THEN HourOf(t) * 60 + t.m ELSE Missing

\* the duration with no step for games crossing midnight
game_duration_minutes_NoRollover(start_time, end_time) ==
    LET start == parse_time(start_time)
        end == parse_time(end_time)
    IN IF start # Missing /\ end # Missing THEN end - start ELSE Missing

\* compute_game_durations_all_years.py, lines 19-28: end is moved to the
\* next day when it is before start; None when either time does not parse
game_duration_minutes(start_time, end_time) ==
    LET start == parse_time(start_time)
        end == parse_time(end_time)
    IN IF start # Missing /\ end # Missing
          THEN (IF end < start THEN end + MinutesPerDay ELSE end) - start
          ELSE Missing

\* find_event_densities.py, lines 94-101: min_diff of a start and an end event
densities_min_diff(start_time, end_time) ==
    Rollover(ToDatetime(start_time), ToDatetime(end_time)) - ToDatetime(start_time)

\* pbp_scripts/season_metrics.py: diff_seconds of the two parsed times, in
\* minutes (the seconds are whole minutes)
metrics_diff_minutes(start_time, end_time) ==
    LET ds == diff_seconds(parse_wc_time(start_time), parse_wc_time(end_time))
    IN IF ds = Missing THEN Missing ELSE ds \div 60

\* ---- AbhiPendyala infer_season_from_game_id (lines 36-51) ----
\*
\* A game id is [kind, neg, digits]: a Python int or an integral float (as
\* pandas reads the column), a string of digits with an optional minus sign,
\* a string with a letter after the digits, or NaN.  A string is a sequence
\* of characters, a digit being the number 0..9 and MinusSign the '-'.

MinusSign == -1

\* int() drops the leading zeros of a digit string
RECURSIVE StripLeadingZeros(_)
StripLeadingZeros(digits) ==
    IF Len(digits) > 1 /\ digits[1] = 0
        THEN StripLeadingZeros(Tail(digits))
        ELSE digits

\* whether int(game_id) succeeds: not for NaN, text or a string with no digit
IntSucceeds(game_id) ==
    /\ game_id.kind \in {"int", "float", "str"}
    /\ game_id.digits # <<>>

\* str(int(game_id)) (line 43)
StrOfInt(game_id) ==
    LET magnitude == StripLeadingZeros(game_id.digits)
    IN IF game_id.neg /\ magnitude # <<0>>
          THEN <<MinusSign>> \o magnitude
          ELSE magnitude

\* the century rule with every yy taken for 20yy
YearOf_Always2000(yy) == 2000 + yy

\* line 50: year = 1900 + yy if yy >= 90 else 2000 + yy
YearOf(yy) == IF yy >= 90 THEN 1900 + yy ELSE 2000 + yy

\* NaN is Missing
infer_season_from_game_id(game_id) ==
    IF ~IntSucceeds(game_id)
        THEN Missing
        ELSE LET s == StrOfInt(game_id)
             IN IF Len(s) < 5 \/ ~(s[1] = 1 /\ s[2] = 0)
                   THEN Missing
                   ELSE YearOf(s[4] * 10 + s[5])

\* digits the ids are built from: the "10" prefix and years around 89 / 90
DigitSamples == {0, 1, 8, 9}

DigitStrings == UNION { [1..n -> DigitSamples] : n \in 0..MaxIdDigits }

\* digit strings a number prints as: no leading zero
Canonical(digits) == digits # <<>> /\ (Len(digits) = 1 \/ digits[1] # 0)

\* the two ids of the docstring: 1029700010 and 1042400212
DocstringIds ==
    { [kind |-> "int", neg |-> FALSE, digits |-> <<1, 0, 2, 9, 7, 0, 0, 0, 1, 0>>],
      [kind |-> "int", neg |-> FALSE, digits |-> <<1, 0, 4, 2, 4, 0, 0, 2, 1, 2>>] }

GameIdInputs ==
    { [kind |-> k, neg |-> n, digits |-> ds] :
         k \in {"int", "float"}, n \in BOOLEAN, ds \in { x \in DigitStrings : Canonical(x) } }
    \cup { [kind |-> "str", neg |-> n, digits |-> ds] : n \in BOOLEAN, ds \in DigitStrings }
    \cup { [kind |-> "text", neg |-> FALSE, digits |-> ds] : ds \in DigitStrings }
    \cup { [kind |-> "nan", neg |-> FALSE, digits |-> <<>>] }
    \cup DocstringIds

CallInit ==
    /\ EvIdle
    /\ FetchIdle
    /\ MetIdle
    /\ PbpIdle
    /\ RoIdle
    /\ call_pc = "args"
    /\ \/ call_fn = "replay_total" /\ call_args \in ReplayGames
       \/ call_fn = "_to_seconds_from_wctime" /\ call_args \in CallSeries
       \/ call_fn = "diff_seconds" /\ call_args \in CallClockSamples \X CallClockSamples
       \/ call_fn = "durations" /\ call_args \in CallClockSamples \X CallClockSamples
       \/ call_fn = "infer_season_from_game_id" /\ call_args \in GameIdInputs
    /\ call_result = "none"

CallOthersUnchanged == UNCHANGED <<evVars, fetchVars, metVars, pbpVars, roVars>>

\* AbhiPendyala per_game_metrics, lines 204-210
Call_replay_total ==
    /\ call_pc = "args"
    /\ call_fn = "replay_total"
    /\ call_result' = ReplayTotal(call_args.wall, call_args.replay_mask)
    /\ call_pc' = "returned"
    /\ UNCHANGED <<call_fn, call_args>>
    /\ CallOthersUnchanged

\* AbhiPendyala _to_seconds_from_wctime, lines 54-78
Call_to_seconds_from_wctime ==
    /\ call_pc = "args"
    /\ call_fn = "_to_seconds_from_wctime"
    /\ call_result' = _to_seconds_from_wctime(call_args)
    /\ call_pc' = "returned"
    /\ UNCHANGED <<call_fn, call_args>>
    /\ CallOthersUnchanged

\* pbp_scripts diff_seconds on two parse_wc_time results, lines 38-47
Call_diff_seconds ==
    /\ call_pc = "args"
    /\ call_fn = "diff_seconds"
    /\ call_result' = diff_seconds(parse_wc_time(call_args[1]), parse_wc_time(call_args[2]))
    /\ call_pc' = "returned"
    /\ UNCHANGED <<call_fn, call_args>>
    /\ CallOthersUnchanged

\* one start/end pair given to the four scripts that compute a duration:
\* compute_game_durations_all_years.py, remove_outliers.first_last_valid_times
\* (a game of two rows), find_event_densities and season_metrics.diff_seconds
Call_durations ==
    /\ call_pc = "args"
    /\ call_fn = "durations"
    /\ call_result' = [ compute   |-> game_duration_minutes(call_args[1], call_args[2]),
                        outliers  |-> first_last_valid_times(<<call_args[1], call_args[2]>>),
                        densities |-> IF Parsable(call_args[1]) /\ Parsable(call_args[2])
                                         THEN densities_min_diff(call_args[1], call_args[2])
                                         ELSE Missing,
                        metrics   |-> metrics_diff_minutes(call_args[1], call_args[2]) ]
    /\ call_pc' = "returned"
    /\ UNCHANGED <<call_fn, call_args>>
    /\ CallOthersUnchanged

\* AbhiPendyala infer_season_from_game_id, lines 36-51
Call_infer_season_from_game_id ==
    /\ call_pc = "args"
    /\ call_fn = "infer_season_from_game_id"
    /\ call_result' = infer_season_from_game_id(call_args)
    /\ call_pc' = "returned"
    /\ UNCHANGED <<call_fn, call_args>>
    /\ CallOthersUnchanged

CallNext ==
    \/ Call_replay_total
    \/ Call_to_seconds_from_wctime
    \/ Call_diff_seconds
    \/ Call_durations
    \/ Call_infer_season_from_game_id

SpecCall == CallInit /\ [][CallNext]_vars

-----------------------------------------------------------------------------
\* Claims about the helper functions (checked under SpecCall)

\* the replay total with one segment per run of consecutive replay rows:
\* from the run's first row to the next row that is not a replay
RECURSIVE BlockTotal(_, _, _)
BlockTotal(wall, replay_mask, i) ==
    IF i > Len(wall)
        THEN 0
        ELSE LET first == replay_mask[i] /\ (i = 1 \/ ~replay_mask[i - 1])
                 after == { j \in (i + 1)..Len(wall) : ~replay_mask[j] }
                 delta == IF first /\ after # {}
                             THEN wall[FirstIn(after)] - wall[i]
                             ELSE 0
             IN (IF delta > 0 THEN delta ELSE 0) + BlockTotal(wall, replay_mask, i + 1)

\* C18: a run of consecutive instant-replay rows followed by a non-replay
\* row adds a single segment to the replay total, from the run's first row
\* to that non-replay row.
C18_ReplayRunIsOneBlock ==
    (call_pc = "returned" /\ call_fn = "replay_total") =>
        call_result = BlockTotal(call_args.wall, call_args.replay_mask, 1)

\* the values the strings of a series parse to, unparsable ones left out
ParsedSeconds(series) ==
    LET RECURSIVE Keep(_)
        Keep(i) == IF i > Len(series) THEN <<>>
                   ELSE IF Parsable(series[i])
                           THEN <<HourOf(series[i]) * 3600 + series[i].m * 60>> \o Keep(i + 1)
                           ELSE Keep(i + 1)
    IN Keep(1)

NeverDecreases(s) == \A i \in 1..(Len(s) - 1) : s[i] <= s[i + 1]

\* C19: the series _to_seconds_from_wctime returns never decreases, and for
\* a game whose parsed times never decrease no day offset is added: every
\* row that parses gets hour * 3600 + minute * 60.
C19_MonotoneNoSpuriousOffset ==
    (call_pc = "returned" /\ call_fn = "_to_seconds_from_wctime") =>
        /\ Len(call_result) = Len(call_args)
        /\ NeverDecreases(call_result)
        /\ NeverDecreases(ParsedSeconds(call_args)) =>
              \A i \in 1..Len(call_args) :
                  Parsable(call_args[i]) =>
                      call_result[i] = HourOf(call_args[i]) * 3600 + call_args[i].m * 60

\* the forward elapsed time from clock reading t1 to clock reading t2 within
\* the following 24 hours
ForwardSeconds(t1, t2) == (t2 - t1) % SecondsPerDay

\* C20 as stated: None when an argument is None, otherwise the forward
\* elapsed seconds from t1 to t2 for every pair of clock times.
C20_ForwardForEveryPair ==
    (call_pc = "returned" /\ call_fn = "diff_seconds") =>
        LET t1 == parse_wc_time(call_args[1])
            t2 == parse_wc_time(call_args[2])
        IN IF t1 = Missing \/ t2 = Missing
              THEN call_result = Missing
              ELSE call_result = ForwardSeconds(t1, t2)

\* C20, amended: None when an argument is None; the forward elapsed seconds
\* when t2's reading is not before t1's or the forward gap is under twelve
\* hours; otherwise the negative difference t2 - t1.
C20_ForwardUnderTwelveHours ==
    (call_pc = "returned" /\ call_fn = "diff_seconds") =>
        LET t1 == parse_wc_time(call_args[1])
            t2 == parse_wc_time(call_args[2])
        IN IF t1 = Missing \/ t2 = Missing
              THEN call_result = Missing
              ELSE IF t2 >= t1 \/ ForwardSeconds(t1, t2) < 12 * 3600
                      THEN call_result = ForwardSeconds(t1, t2)
                      ELSE call_result = t2 - t1 /\ call_result < 0

\* C20 witness: 11:58 PM -> 12:02 AM gives the 240 seconds across midnight
C20_Witness ==
    /\ call_pc = "returned"
    /\ call_fn = "diff_seconds"
    /\ call_args = <<Clock(11, 58, "PM"), Clock(12, 2, "AM")>>
    /\ call_result = 240

\* the forward minutes from clock time start to clock time end
ForwardMinutes(start_time, end_time) ==
    (ToDatetime(end_time) - ToDatetime(start_time)) % MinutesPerDay

\* C21 as stated: for every pair of valid clock times the four computations
\* give the same minutes, (end - start) modulo 1440.
C21_DurationsAllAgree ==
    (call_pc = "returned" /\ call_fn = "durations"
        /\ Parsable(call_args[1]) /\ Parsable(call_args[2])) =>
        LET m == ForwardMinutes(call_args[1], call_args[2])
        IN /\ call_result.compute = m
           /\ call_result.outliers = m
           /\ call_result.densities = m
           /\ call_result.metrics = m

\* C21, amended: compute_game_durations_all_years.py, first_last_valid_times
\* and the find_event_densities rule always give (end - start) modulo 1440;
\* diff_seconds / 60 gives the same value when end does not read before
\* start or the forward gap is under 720 minutes, and the negative
\* difference end - start otherwise.
C21_DurationsAgreeUnderTwelveHours ==
    (call_pc = "returned" /\ call_fn = "durations"
        /\ Parsable(call_args[1]) /\ Parsable(call_args[2])) =>
        LET m == ForwardMinutes(call_args[1], call_args[2])
            raw == ToDatetime(call_args[2]) - ToDatetime(call_args[1])
        IN /\ call_result.compute = m
           /\ call_result.outliers = m
           /\ call_result.densities = m
           /\ call_result.metrics = IF raw >= 0 \/ m < 720 THEN m ELSE raw

\* C21 witness: 11:58 PM -> 12:02 AM, four minutes by all four computations
C21_Witness ==
    /\ call_pc = "returned"
    /\ call_fn = "durations"
    /\ call_args = <<Clock(11, 58, "PM"), Clock(12, 2, "AM")>>
    /\ call_result = [compute |-> 4, outliers |-> 4, densities |-> 4, metrics |-> 4]

\* the number a digit string denotes
RECURSIVE ValueOf(_)
ValueOf(digits) ==
    IF digits = <<>> THEN 0
    ELSE ValueOf(SubSeq(digits, 1, Len(digits) - 1)) * 10 + digits[Len(digits)]

RECURSIVE Pow10(_)
Pow10(n) == IF n = 0 THEN 1 ELSE 10 * Pow10(n - 1)

\* how many decimal digits a natural number has
RECURSIVE NumDigits(_)
NumDigits(v) == IF v < 10 THEN 1 ELSE 1 + NumDigits(v \div 10)

\* the season the claim gives for a game id: NaN (Missing) unless the id is
\* an integer of at least five digits whose first two are 1 and 0, then the
\* century rule on its fourth and fifth digits
SeasonWanted(game_id) ==
    IF game_id.kind \in {"text", "nan"} \/ game_id.digits = <<>>
        THEN Missing
        ELSE LET v == ValueOf(game_id.digits)
                 n == NumDigits(v)
             IN IF (game_id.neg /\ v > 0) \/ n < 5
                   THEN Missing
                   ELSE IF v \div Pow10(n - 2) # 10
                           THEN Missing
                           ELSE LET yy == (v \div Pow10(n - 5)) % 100
                                IN IF yy >= 90 THEN 1900 + yy ELSE 2000 + yy

====
